---------------------------- MODULE Spec2Model ----------------------------
(***************************************************************************)
(* Model of src/server.js: the rumor board's in-memory SQLite database     *)
(* (tables rumors, votes, user_credibility) and the five HTTP handlers     *)
(* that read and write it.  Every handler is synchronous JavaScript, so    *)
(* one request is one atomic step.                                         *)
(*                                                                         *)
(* Numbers.  REAL columns are kept as exact fixed-point integers:          *)
(*   credibility, vote_weight  in units of 1/CredScale,                    *)
(*   confidence                in tenths (1/ConfScale),                    *)
(*   trust_score               in units of 1/TrustScale.                   *)
(* CredScale = 100 * 5^6 keeps "* 0.8" exact for six successive            *)
(* multiplications of a multiple of 0.01.  IEEE-754 rounding of the        *)
(* JavaScript doubles is not modelled.                                     *)
(* Time is Date.now() in units of 864000 ms (0.01 day).                    *)
(*                                                                         *)
(* Columns that no statement of the program ever reads (votes.id,          *)
(* votes.timestamp, user_credibility.created_at) are left out.             *)
(*                                                                         *)
(* A handler is an operator from the database, the request and the clock   *)
(* to the database it leaves and the response it sends; the state holds    *)
(* the database and the clock, and the responses are read off the          *)
(* handlers.                                                               *)
(***************************************************************************)
EXTENDS Integers, Sequences, FiniteSets

VARIABLES db, now

vars == <<db, now>>

---------------------------------------------------------------------------
(* Units *)

CredScale == 100 * (5 ^ 6)
ConfScale == 10
TrustScale == CredScale * ConfScale

(* Program constants, in the units above *)

DEFAULT_CREDIBILITY == CredScale \div 10               \* 0.1
CONSENSUS_THRESHOLD == 5
CREDIBILITY_INCREASE == (2 * CredScale) \div 100       \* 0.02
MIN_CREDIBILITY == (5 * CredScale) \div 100            \* 0.05
MAX_CREDIBILITY == 3 * CredScale                       \* 3.0
DELETE_PENALTY == CredScale \div 10                    \* 0.1
HIGH_CONFIDENCE == 7                                   \* 0.7
MIN_CONFIDENCE == 1                                    \* 0.1
MAX_CONFIDENCE == ConfScale                            \* 1.0
INACTIVITY_THRESHOLD == 7 * 3044                       \* 7 * 30.44 days
LOW_TRUST_THRESHOLD == 0 - ((8 * TrustScale) \div 10)  \* -0.8
USER_CLEANUP_THRESHOLD == 365 * 100                    \* 365 days
SEECS_BACKDATE == 18 * 3044                            \* 18 * 30.44 days
MAX_CONTENT_LENGTH == 500

---------------------------------------------------------------------------
(* Bounds and input sets *)

MaxRumors == 2

\* identities that send requests while the model runs
ActiveTokens == {1, 2}
\* identities that only appear in the database loaded at start-up
CrowdTokens == 101 .. 109
\* a string that is not 64 hex characters
BadToken == 0
\* a request body without hashedToken
NoToken == 0 - 1
\* a request body without rumorId
NoRumorId == 0

PlainContent == "New cafeteria opening next week!"
SeecsContent == "They say SEECS is built on top of a graveyard"
LongContent == "x501"
Contents == {PlainContent, SeecsContent}

VoteTypes == {"verify", "dispute"}
Confidences == {5, 10}

\* the instants at which Date.now() is observed
StartTime == 1
Instants == {StartTime, INACTIVITY_THRESHOLD + 1, USER_CLEANUP_THRESHOLD + 1}
\* the instant at which the earlier run of the server wrote its database file
StoredTime == 0

---------------------------------------------------------------------------
(* Small helpers *)

Max(a, b) == IF a >= b THEN a ELSE b
Min(a, b) == IF a <= b THEN a ELSE b

\* String.prototype.length of the request's content
ContentLength(content) ==
    IF content = "" THEN 0
    ELSE IF content = LongContent THEN MAX_CONTENT_LENGTH + 1
    ELSE 40

\* content LIKE '%SEECS is built on top of a graveyard%'
LikeSeecs(content) == content = SeecsContent

isValidHashedToken(token) == token \in ActiveTokens \cup CrowdTokens

EmptyDb == [rumors |-> << >>, votes |-> {}, user_credibility |-> << >>]

HasUser(d, token) == token \in DOMAIN d.user_credibility

RumorIds(d) == 1 .. Len(d.rumors)

NoBody == [kind |-> "none"]

Reply(d, op, status, error, body) ==
    [db |-> d, res |-> [op |-> op, status |-> status, error |-> error, body |-> body]]

---------------------------------------------------------------------------
(* Credibility ledger *)

\* getUserCredibility: the stored credibility, or a new record with 0.1
getUserCredibility(d, hashedToken, t) ==
    IF HasUser(d, hashedToken)
    THEN [db |-> d, credibility |-> d.user_credibility[hashedToken].credibility]
    ELSE [db |-> [d EXCEPT !.user_credibility =
                    [k \in DOMAIN d.user_credibility \cup {hashedToken} |->
                        IF k = hashedToken
                        THEN [credibility |-> DEFAULT_CREDIBILITY, total_votes |-> 0,
                              aligned_votes |-> 0, last_updated |-> t]
                        ELSE d.user_credibility[k]]],
          credibility |-> DEFAULT_CREDIBILITY]

\* newCredibility *= CREDIBILITY_MULTIPLIER  (0.8 = 4/5)
TimesMultiplier(c) == (c * 4) \div 5

\* Clamp without the lower bound
Clamp_NoFloor(c) == Min(MAX_CREDIBILITY, c)

Clamp(c) == Max(MIN_CREDIBILITY, Min(MAX_CREDIBILITY, c))

\* the two penalties swapped: the steep one for the low-confidence miss
NewCredibility_Swapped(c, aligned, highConfidence) ==
    Clamp(IF aligned THEN c + CREDIBILITY_INCREASE
          ELSE IF highConfidence THEN c - (CREDIBILITY_INCREASE \div 2)
          ELSE TimesMultiplier(c))

NewCredibility(c, aligned, highConfidence) ==
    Clamp(IF aligned THEN c + CREDIBILITY_INCREASE
          ELSE IF highConfidence THEN TimesMultiplier(c)
          ELSE c - (CREDIBILITY_INCREASE \div 2))

\* updateUserCredibility on the user_credibility table uc
updateUserCredibility(uc, hashedToken, aligned, highConfidence, t) ==
    IF hashedToken \notin DOMAIN uc THEN uc
    ELSE [uc EXCEPT ![hashedToken] =
            [credibility |-> NewCredibility(@.credibility, aligned, highConfidence),
             total_votes |-> @.total_votes + 1,
             aligned_votes |-> @.aligned_votes + (IF aligned THEN 1 ELSE 0),
             last_updated |-> t]]

\* a tie resolved to verify
ConsensusDirection_TieVerify(rumor) ==
    IF rumor.trust_score >= 0 THEN "verify" ELSE "dispute"

ConsensusDirection(rumor) == IF rumor.trust_score > 0 THEN "verify" ELSE "dispute"

\* votersToUpdate.forEach(...) over the vote rows of one rumor
RECURSIVE ApplyFeedback(_, _, _, _)
ApplyFeedback(uc, rows, direction, t) ==
    IF rows = {} THEN uc
    ELSE LET vote == CHOOSE v \in rows : TRUE
         IN ApplyFeedback(
                updateUserCredibility(uc, vote.hashed_token,
                                      vote.vote_type = direction,
                                      vote.confidence > HIGH_CONFIDENCE, t),
                rows \ {vote}, direction, t)

\* the threshold compared with <= : the resolver first fires on the sixth vote
updateVoterCredibility_Late(d, rumorId, t) ==
    IF rumorId \notin RumorIds(d) THEN d
    ELSE LET rumor == d.rumors[rumorId]
             totalVotes == rumor.verify_count + rumor.dispute_count
         IN IF totalVotes <= CONSENSUS_THRESHOLD THEN d
            ELSE [d EXCEPT !.user_credibility =
                    ApplyFeedback(d.user_credibility,
                                  {v \in d.votes : v.rumor_id = rumorId},
                                  ConsensusDirection(rumor), t)]

\* updateVoterCredibility(rumorId)
updateVoterCredibility(d, rumorId, t) ==
    IF rumorId \notin RumorIds(d) THEN d
    ELSE LET rumor == d.rumors[rumorId]
             totalVotes == rumor.verify_count + rumor.dispute_count
         IN IF totalVotes < CONSENSUS_THRESHOLD THEN d
            ELSE [d EXCEPT !.user_credibility =
                    ApplyFeedback(d.user_credibility,
                                  {v \in d.votes : v.rumor_id = rumorId},
                                  ConsensusDirection(rumor), t)]

---------------------------------------------------------------------------
(* POST /api/rumors *)

\* the INSERT counting the submission as a first verify vote
NewRumor_CountedVerify(content, timestamp, initialTrustScore, hashedToken) ==
    [content |-> content, timestamp |-> timestamp,
     verify_count |-> 1, dispute_count |-> 0,
     weighted_verify |-> initialTrustScore, weighted_dispute |-> 0,
     trust_score |-> initialTrustScore,
     is_deleted |-> FALSE, is_archived |-> FALSE,
     submitter_token |-> hashedToken, status |-> "ACTIVE"]

NewRumor(content, timestamp, initialTrustScore, hashedToken) ==
    [content |-> content, timestamp |-> timestamp,
     verify_count |-> 0, dispute_count |-> 0,
     weighted_verify |-> initialTrustScore, weighted_dispute |-> 0,
     trust_score |-> initialTrustScore,
     is_deleted |-> FALSE, is_archived |-> FALSE,
     submitter_token |-> hashedToken, status |-> "ACTIVE"]

ValidConfidence(confidenceWeight) ==
    confidenceWeight >= MIN_CONFIDENCE /\ confidenceWeight <= MAX_CONFIDENCE

SubmitHandler(d, q, t) ==
    IF ContentLength(q.content) = 0
    THEN Reply(d, "submit", 400, "Validation", NoBody)
    ELSE IF ~isValidHashedToken(q.hashedToken)
    THEN Reply(d, "submit", 400, "Validation", NoBody)
    ELSE IF ContentLength(q.content) > MAX_CONTENT_LENGTH
    THEN Reply(d, "submit", 400, "Validation", NoBody)
    ELSE IF ~ValidConfidence(q.confidenceWeight)
    THEN Reply(d, "submit", 400, "Validation", NoBody)
    ELSE LET got == getUserCredibility(d, q.hashedToken, t)
             initialTrustScore == got.credibility * q.confidenceWeight
             row == NewRumor(q.content, t, initialTrustScore, q.hashedToken)
             d2 == [got.db EXCEPT !.rumors = Append(@, row)]
         IN Reply(d2, "submit", 200, "none",
                  [kind |-> "rumor", id |-> Len(d2.rumors), content |-> q.content,
                   timestamp |-> t, verify_count |-> 0, dispute_count |-> 0,
                   trust_score |-> initialTrustScore,
                   submitter_token |-> q.hashedToken, status |-> "ACTIVE"])

---------------------------------------------------------------------------
(* POST /api/vote *)

\* the SELECT without its is_archived = 0
RumorOpen_IgnoresArchive(d, rumorId) ==
    /\ rumorId \in RumorIds(d)
    /\ ~d.rumors[rumorId].is_deleted

\* SELECT * FROM rumors WHERE id = ? AND is_deleted = 0 AND is_archived = 0
RumorOpen(d, rumorId) ==
    /\ rumorId \in RumorIds(d)
    /\ ~d.rumors[rumorId].is_deleted
    /\ ~d.rumors[rumorId].is_archived

\* the duplicate check looking only at the rows of one vote type
ExistingVote_SameType(d, rumorId, hashedToken) ==
    \E v \in d.votes :
        v.rumor_id = rumorId /\ v.hashed_token = hashedToken /\ v.vote_type = "verify"

\* SELECT * FROM votes WHERE rumor_id = ? AND hashed_token = ?
ExistingVote(d, rumorId, hashedToken) ==
    \E v \in d.votes : v.rumor_id = rumorId /\ v.hashed_token = hashedToken

\* the owner check always passing the caller as a stranger
IsOwner_Never(d, rumorId, hashedToken) == FALSE

\* rumor.submitter_token === hashedToken
IsOwner(d, rumorId, hashedToken) == d.rumors[rumorId].submitter_token = hashedToken

VoteDirection(voteType) == IF voteType = "verify" THEN 1 ELSE 0 - 1

\* RecordVote with the confidence weight left out of the vote impact
RecordVote_NoConfidence(d, q, t) ==
    LET got == getUserCredibility(d, q.hashedToken, t)
        userCredibility == got.credibility
        voteImpact == userCredibility * ConfScale * VoteDirection(q.voteType)
        row == [rumor_id |-> q.rumorId, hashed_token |-> q.hashedToken,
                vote_type |-> q.voteType, vote_weight |-> userCredibility,
                confidence |-> q.confidenceWeight]
        d1 == [got.db EXCEPT !.votes = @ \cup {row}]
        d2 == IF q.voteType = "verify"
              THEN [d1 EXCEPT !.rumors[q.rumorId].verify_count = @ + 1]
              ELSE [d1 EXCEPT !.rumors[q.rumorId].dispute_count = @ + 1]
        d3 == [d2 EXCEPT !.rumors[q.rumorId].trust_score = @ + voteImpact]
    IN [db |-> d3, credibility |-> userCredibility]

\* the trust score written from the submission's value instead of the current
\* one: the impact of the votes recorded in between is lost
RecordVote_StaleScore(d, q, t) ==
    LET got == getUserCredibility(d, q.hashedToken, t)
        userCredibility == got.credibility
        voteImpact == userCredibility * q.confidenceWeight * VoteDirection(q.voteType)
        row == [rumor_id |-> q.rumorId, hashed_token |-> q.hashedToken,
                vote_type |-> q.voteType, vote_weight |-> userCredibility,
                confidence |-> q.confidenceWeight]
        d1 == [got.db EXCEPT !.votes = @ \cup {row}]
        d2 == IF q.voteType = "verify"
              THEN [d1 EXCEPT !.rumors[q.rumorId].verify_count = @ + 1]
              ELSE [d1 EXCEPT !.rumors[q.rumorId].dispute_count = @ + 1]
        d3 == [d2 EXCEPT !.rumors[q.rumorId].trust_score =
                            d.rumors[q.rumorId].weighted_verify + voteImpact]
    IN [db |-> d3, credibility |-> userCredibility]

\* lines 399-434: the vote row, the count and the trust score
RecordVote(d, q, t) ==
    LET got == getUserCredibility(d, q.hashedToken, t)
        userCredibility == got.credibility
        voteImpact == userCredibility * q.confidenceWeight * VoteDirection(q.voteType)
        row == [rumor_id |-> q.rumorId, hashed_token |-> q.hashedToken,
                vote_type |-> q.voteType, vote_weight |-> userCredibility,
                confidence |-> q.confidenceWeight]
        d1 == [got.db EXCEPT !.votes = @ \cup {row}]
        d2 == IF q.voteType = "verify"
              THEN [d1 EXCEPT !.rumors[q.rumorId].verify_count = @ + 1]
              ELSE [d1 EXCEPT !.rumors[q.rumorId].dispute_count = @ + 1]
        d3 == [d2 EXCEPT !.rumors[q.rumorId].trust_score = @ + voteImpact]
    IN [db |-> d3, credibility |-> userCredibility]

VoteHandler(d, q, t) ==
    IF q.rumorId = NoRumorId
    THEN Reply(d, "vote", 400, "Validation", NoBody)
    ELSE IF ~isValidHashedToken(q.hashedToken)
    THEN Reply(d, "vote", 400, "Validation", NoBody)
    ELSE IF q.voteType \notin VoteTypes
    THEN Reply(d, "vote", 400, "Validation", NoBody)
    ELSE IF ~ValidConfidence(q.confidenceWeight)
    THEN Reply(d, "vote", 400, "Validation", NoBody)
    ELSE IF ~RumorOpen(d, q.rumorId)
    THEN Reply(d, "vote", 404, "NotFound", NoBody)
    ELSE IF IsOwner(d, q.rumorId, q.hashedToken)
    THEN Reply(d, "vote", 403, "Forbidden", NoBody)
    ELSE IF ExistingVote(d, q.rumorId, q.hashedToken)
    THEN Reply(d, "vote", 400, "Conflict", NoBody)
    ELSE LET rec == RecordVote(d, q, t)
             updatedRumor == rec.db.rumors[q.rumorId]
         IN Reply(updateVoterCredibility(rec.db, q.rumorId, t), "vote", 200, "none",
                  [kind |-> "vote",
                   verify_count |-> updatedRumor.verify_count,
                   dispute_count |-> updatedRumor.dispute_count,
                   trust_score |-> updatedRumor.trust_score,
                   your_credibility |-> rec.credibility])

---------------------------------------------------------------------------
(* GET /api/credibility/:hashedToken *)

CredibilityHandler(d, hashedToken, t) ==
    IF ~isValidHashedToken(hashedToken)
    THEN Reply(d, "credibility", 400, "Validation", NoBody)
    ELSE LET d1 == getUserCredibility(d, hashedToken, t).db
             user == d1.user_credibility[hashedToken]
         IN Reply(d1, "credibility", 200, "none",
                  [kind |-> "credibility", credibility |-> user.credibility,
                   total_votes |-> user.total_votes,
                   aligned_votes |-> user.aligned_votes])

---------------------------------------------------------------------------
(* POST /api/delete *)

\* the penalty without its floor
PenalisedCredibility_NoFloor(currentCred) == currentCred - DELETE_PENALTY

\* Math.max(MIN_CREDIBILITY, currentCred - 0.1)
PenalisedCredibility(currentCred) == Max(MIN_CREDIBILITY, currentCred - DELETE_PENALTY)

ApplyPenalty(d, hashedToken, t) ==
    IF HasUser(d, hashedToken)
    THEN [d EXCEPT !.user_credibility[hashedToken].credibility = PenalisedCredibility(@),
                   !.user_credibility[hashedToken].last_updated = t]
    ELSE d

DeleteHandler(d, q, t) ==
    IF q.rumorId = NoRumorId \/ q.hashedToken = NoToken
    THEN Reply(d, "delete", 400, "Validation", NoBody)
    ELSE IF q.rumorId \notin RumorIds(d)
    THEN Reply(d, "delete", 404, "NotFound", NoBody)
    ELSE IF ~IsOwner(d, q.rumorId, q.hashedToken)
    THEN Reply(d, "delete", 403, "Forbidden", NoBody)
    ELSE IF d.rumors[q.rumorId].is_deleted
    THEN Reply(d, "delete", 400, "AlreadyDeleted", NoBody)
    ELSE Reply(ApplyPenalty([d EXCEPT !.rumors[q.rumorId].is_deleted = TRUE],
                            q.hashedToken, t),
               "delete", 200, "none", NoBody)

---------------------------------------------------------------------------
(* GET /api/rumors *)

\* the SEECS statement clearing the trust score as well
SeecsUpdate_ResetScore(rumors, t) ==
    [i \in DOMAIN rumors |->
        IF LikeSeecs(rumors[i].content)
        THEN [rumors[i] EXCEPT !.timestamp = t - SEECS_BACKDATE, !.trust_score = 0,
                               !.status = "ARCHIVED", !.is_archived = TRUE]
        ELSE rumors[i]]

\* lines 230-236: the rumors matching the SEECS pattern are backdated and archived
SeecsUpdate(rumors, t) ==
    [i \in DOMAIN rumors |->
        IF LikeSeecs(rumors[i].content)
        THEN [rumors[i] EXCEPT !.timestamp = t - SEECS_BACKDATE,
                               !.status = "ARCHIVED", !.is_archived = TRUE]
        ELSE rumors[i]]

ShouldArchive(rumor, t) ==
    /\ rumor.status = "ACTIVE"
    /\ \/ t - rumor.timestamp > INACTIVITY_THRESHOLD
       \/ rumor.trust_score < LOW_TRUST_THRESHOLD

\* the auto-archive UPDATE setting status and leaving is_archived alone
AutoArchive_StatusOnly(rumors, t) ==
    [i \in DOMAIN rumors |->
        IF ShouldArchive(rumors[i], t)
        THEN [rumors[i] EXCEPT !.status = "ARCHIVED"]
        ELSE rumors[i]]

\* lines 238-247: auto-archive check
AutoArchive(rumors, t) ==
    [i \in DOMAIN rumors |->
        IF ShouldArchive(rumors[i], t)
        THEN [rumors[i] EXCEPT !.status = "ARCHIVED", !.is_archived = TRUE]
        ELSE rumors[i]]

\* the cleanup comparing with <= : a record exactly 365 days old is removed
RemoveInactiveUsers_Inclusive(uc, t) ==
    LET thresholdDate == t - USER_CLEANUP_THRESHOLD
        kept == {k \in DOMAIN uc : ~(uc[k].last_updated <= thresholdDate)}
    IN [k \in kept |-> uc[k]]

\* DELETE FROM user_credibility WHERE last_updated < thresholdDate
RemoveInactiveUsers(uc, t) ==
    LET thresholdDate == t - USER_CLEANUP_THRESHOLD
        kept == {k \in DOMAIN uc : ~(uc[k].last_updated < thresholdDate)}
    IN [k \in kept |-> uc[k]]

\* DELETE FROM votes WHERE hashed_token NOT IN (SELECT hashed_token FROM user_credibility)
RemoveOrphanVotes(votes, uc) == {v \in votes : v.hashed_token \in DOMAIN uc}

\* lines 225-261: the statements run before the SELECT
Sweep(d, t) ==
    LET rumors == AutoArchive(SeecsUpdate(d.rumors, t), t)
        uc == RemoveInactiveUsers(d.user_credibility, t)
    IN [rumors |-> rumors, votes |-> RemoveOrphanVotes(d.votes, uc),
        user_credibility |-> uc]

\* ORDER BY status DESC
StatusRank_Descending(status) == IF status = "ACTIVE" THEN 1 ELSE 0

\* 'ACTIVE' < 'ARCHIVED' in ORDER BY status ASC
StatusRank(status) == IF status = "ACTIVE" THEN 0 ELSE 1

\* ORDER BY status ASC, timestamp DESC: a may come before b
MayPrecede(a, b) ==
    \/ StatusRank(a.status) < StatusRank(b.status)
    \/ StatusRank(a.status) = StatusRank(b.status) /\ a.timestamp >= b.timestamp

ListedRow(d, id) ==
    LET r == d.rumors[id]
    IN [id |-> id, content |-> r.content, timestamp |-> r.timestamp,
        verify_count |-> r.verify_count, dispute_count |-> r.dispute_count,
        trust_score |-> r.trust_score, submitter_token |-> r.submitter_token,
        status |-> r.status]

\* the SELECT without its WHERE is_deleted = 0
Listings_All(d) ==
    LET ids == RumorIds(d)
        n == Cardinality(ids)
        orders == {o \in [1 .. n -> ids] :
                     /\ \A i, j \in 1 .. n : i # j => o[i] # o[j]
                     /\ \A i, j \in 1 .. n :
                            i < j => MayPrecede(d.rumors[o[i]], d.rumors[o[j]])}
    IN {[i \in 1 .. n |-> ListedRow(d, o[i])] : o \in orders}

\* the results the SELECT of lines 263-268 may return; rows that compare equal
\* under the ORDER BY come in an order SQLite does not fix
Listings(d) ==
    LET ids == {i \in RumorIds(d) : ~d.rumors[i].is_deleted}
        n == Cardinality(ids)
        orders == {o \in [1 .. n -> ids] :
                     /\ \A i, j \in 1 .. n : i # j => o[i] # o[j]
                     /\ \A i, j \in 1 .. n :
                            i < j => MayPrecede(d.rumors[o[i]], d.rumors[o[j]])}
    IN {[i \in 1 .. n |-> ListedRow(d, o[i])] : o \in orders}

ListReply(d, rows) ==
    Reply(d, "list", 200, "none", [kind |-> "rumors", rumors |-> rows])

---------------------------------------------------------------------------
(* Requests *)

VoteRequest(rumorId, hashedToken, voteType, confidenceWeight) ==
    [rumorId |-> rumorId, hashedToken |-> hashedToken, voteType |-> voteType,
     confidenceWeight |-> confidenceWeight]

SubmitRequest(content, hashedToken, confidenceWeight) ==
    [content |-> content, hashedToken |-> hashedToken,
     confidenceWeight |-> confidenceWeight]

DeleteRequest(rumorId, hashedToken) == [rumorId |-> rumorId, hashedToken |-> hashedToken]

WellFormedVotes ==
    {VoteRequest(r, h, v, c) :
        r \in 1 .. MaxRumors, h \in ActiveTokens, v \in VoteTypes, c \in Confidences}

MalformedVotes ==
    {VoteRequest(NoRumorId, 1, "verify", 10), VoteRequest(1, BadToken, "verify", 10),
     VoteRequest(1, NoToken, "verify", 10),
     VoteRequest(1, 1, "abstain", 10), VoteRequest(1, 1, "verify", 0),
     VoteRequest(1, 1, "verify", 11)}

VoteRequests == WellFormedVotes \cup MalformedVotes

WellFormedSubmits ==
    {SubmitRequest(PlainContent, 1, 10), SubmitRequest(SeecsContent, 2, 10)}

MalformedSubmits ==
    {SubmitRequest("", 1, 10), SubmitRequest(PlainContent, BadToken, 10),
     SubmitRequest(LongContent, 1, 10), SubmitRequest(PlainContent, 1, 0),
     SubmitRequest(PlainContent, 1, 11)}

DeleteRequests ==
    {DeleteRequest(r, h) : r \in 1 .. MaxRumors, h \in ActiveTokens \cup {BadToken}}
        \cup {DeleteRequest(NoRumorId, 1), DeleteRequest(1, NoToken)}

---------------------------------------------------------------------------
(* The database file found at start-up (lines 24-29): either none, or one  *)
(* written by an earlier run of the server.  The earlier runs are replayed *)
(* through the handlers above.                                             *)

RECURSIVE Replay(_, _, _)
Replay(d, script, t) ==
    IF script = << >> THEN d
    ELSE LET q == Head(script)
             out == IF q.op = "submit" THEN SubmitHandler(d, q.req, t)
                    ELSE IF q.op = "credibility" THEN CredibilityHandler(d, q.req, t)
                    ELSE VoteHandler(d, q.req, t)
         IN Replay(out.db, Tail(script), t)

CrowdVote(hashedToken, voteType, confidenceWeight) ==
    [op |-> "vote", req |-> VoteRequest(1, hashedToken, voteType, confidenceWeight)]

\* a rumor one vote short of the consensus threshold, trust_score 0.05
NearConsensusScript ==
    << [op |-> "submit", req |-> SubmitRequest(PlainContent, 1, 10)],
       [op |-> "credibility", req |-> 2],
       CrowdVote(101, "dispute", 10), CrowdVote(102, "verify", 10),
       CrowdVote(103, "dispute", 10), CrowdVote(104, "verify", 5) >>

\* a rumor disputed by nine identities, trust_score exactly -0.8
LowTrustScript ==
    << [op |-> "submit", req |-> SubmitRequest(PlainContent, 1, 10)] >>
    \o [i \in 1 .. 9 |-> CrowdVote(100 + i, "dispute", 10)]

\* a rumor of an identity that sends no request, two votes short of the
\* consensus threshold: both requesting identities may vote on it
SharedRumorScript ==
    << [op |-> "submit", req |-> SubmitRequest(PlainContent, 105, 10)],
       CrowdVote(106, "verify", 10), CrowdVote(107, "dispute", 10),
       CrowdVote(108, "verify", 5) >>

StoredDatabases ==
    {EmptyDb, Replay(EmptyDb, NearConsensusScript, StoredTime),
     Replay(EmptyDb, LowTrustScript, StoredTime),
     Replay(EmptyDb, SharedRumorScript, StoredTime)}

---------------------------------------------------------------------------
(* The state machine *)

Init ==
    /\ db \in StoredDatabases
    /\ now = StartTime

GetRumors ==
    LET d == Sweep(db, now)
    IN \E rows \in Listings(d) :
          /\ db' = ListReply(d, rows).db
          /\ UNCHANGED now

PostRumor ==
    \E q \in WellFormedSubmits \cup MalformedSubmits :
        /\ q \in WellFormedSubmits => Len(db.rumors) < MaxRumors
        /\ db' = SubmitHandler(db, q, now).db
        /\ UNCHANGED now

PostVote ==
    \E q \in VoteRequests :
        /\ db' = VoteHandler(db, q, now).db
        /\ UNCHANGED now

GetCredibility ==
    \E h \in ActiveTokens \cup {BadToken} :
        /\ db' = CredibilityHandler(db, h, now).db
        /\ UNCHANGED now

PostDelete ==
    \E q \in DeleteRequests :
        /\ db' = DeleteHandler(db, q, now).db
        /\ UNCHANGED now

\* time passes between two requests
Tick ==
    /\ \E t \in Instants : t > now /\ now' = t
    /\ UNCHANGED db

Next == GetRumors \/ PostRumor \/ PostVote \/ GetCredibility \/ PostDelete \/ Tick

Spec == Init /\ [][Next]_vars

---------------------------------------------------------------------------
(* saveDatabase throwing (lines 105-110: fs.writeFileSync fails).  The     *)
(* exception leaves the function that called saveDatabase and reaches the  *)
(* handler's catch block, which answers 500; the statements run on the     *)
(* in-memory database before the call are not undone.  failAt is the       *)
(* position, among the saveDatabase calls of one request, of the call that *)
(* throws.                                                                 *)

SaveCalls == 1 .. 3

SaveError(d, op) == Reply(d, op, 500, "Internal", NoBody)

\* saves of a submission: line 137 when the record is created, then line 319
SubmitHandlerOnFailure(d, q, t, failAt) ==
    LET ok == SubmitHandler(d, q, t)
        created == ~HasUser(d, q.hashedToken)
    IN IF ok.res.status # 200 THEN ok
       ELSE IF created /\ failAt = 1
       THEN SaveError(getUserCredibility(d, q.hashedToken, t).db, "submit")
       ELSE IF failAt = (IF created THEN 2 ELSE 1)
       THEN SaveError(ok.db, "submit")
       ELSE ok

\* saves of a vote: line 137 when the record is created, line 446, then
\* line 180 when the resolver fires
VoteHandlerOnFailure(d, q, t, failAt) ==
    LET ok == VoteHandler(d, q, t)
        created == ~HasUser(d, q.hashedToken)
        recorded == RecordVote(d, q, t).db
        recordSave == IF created THEN 2 ELSE 1
        resolves == recorded.rumors[q.rumorId].verify_count
                        + recorded.rumors[q.rumorId].dispute_count >= CONSENSUS_THRESHOLD
    IN IF ok.res.status # 200 THEN ok
       ELSE IF created /\ failAt = 1
       THEN SaveError(getUserCredibility(d, q.hashedToken, t).db, "vote")
       ELSE IF failAt = recordSave
       THEN SaveError(recorded, "vote")
       ELSE IF resolves /\ failAt = recordSave + 1
       THEN SaveError(ok.db, "vote")
       ELSE ok

\* save of a lookup: line 137 when the record is created
CredibilityHandlerOnFailure(d, hashedToken, t, failAt) ==
    LET ok == CredibilityHandler(d, hashedToken, t)
    IN IF ok.res.status = 200 /\ ~HasUser(d, hashedToken) /\ failAt = 1
       THEN SaveError(ok.db, "credibility")
       ELSE ok

\* save of a delete: line 543
DeleteHandlerOnFailure(d, q, t, failAt) ==
    LET ok == DeleteHandler(d, q, t)
    IN IF ok.res.status = 200 /\ failAt = 1 THEN SaveError(ok.db, "delete") ELSE ok

\* save of a listing read: line 261, before the SELECT
ListOnFailure(d, t, failAt) ==
    IF failAt = 1 THEN {SaveError(Sweep(d, t), "list")}
    ELSE {ListReply(Sweep(d, t), rows) : rows \in Listings(Sweep(d, t))}

FailedGetRumors ==
    \E failAt \in SaveCalls : \E out \in ListOnFailure(db, now, failAt) :
        /\ out.res.status = 500
        /\ db' = out.db
        /\ UNCHANGED now

FailedPostRumor ==
    \E failAt \in SaveCalls : \E q \in WellFormedSubmits :
        LET out == SubmitHandlerOnFailure(db, q, now, failAt)
        IN /\ Len(db.rumors) < MaxRumors
           /\ out.res.status = 500
           /\ db' = out.db
           /\ UNCHANGED now

FailedPostVote ==
    \E failAt \in SaveCalls : \E q \in WellFormedVotes :
        LET out == VoteHandlerOnFailure(db, q, now, failAt)
        IN /\ out.res.status = 500
           /\ db' = out.db
           /\ UNCHANGED now

FailedGetCredibility ==
    \E failAt \in SaveCalls : \E h \in ActiveTokens :
        LET out == CredibilityHandlerOnFailure(db, h, now, failAt)
        IN /\ out.res.status = 500
           /\ db' = out.db
           /\ UNCHANGED now

FailedPostDelete ==
    \E failAt \in SaveCalls : \E q \in DeleteRequests :
        LET out == DeleteHandlerOnFailure(db, q, now, failAt)
        IN /\ out.res.status = 500
           /\ db' = out.db
           /\ UNCHANGED now

FaultNext ==
    \/ Next
    \/ FailedGetRumors \/ FailedPostRumor \/ FailedPostVote
    \/ FailedGetCredibility \/ FailedPostDelete

\* a fresh installation, or the database with a rumor one vote short of the
\* consensus threshold
FaultInit ==
    /\ db \in {EmptyDb, Replay(EmptyDb, NearConsensusScript, StoredTime)}
    /\ now = StartTime

FaultSpec == FaultInit /\ [][FaultNext]_vars

---------------------------------------------------------------------------
(* The consensus resolver's loop on its own (lines 174-178 with            *)
(* updateUserCredibility): the vote rows of one rumor and the credibility  *)
(* table are drawn from the sets below, and a step applies the feedback    *)
(* for one consensus direction.                                            *)

MaxFeedback == 2

LedgerCredibilities ==
    {MIN_CREDIBILITY, (6 * CredScale) \div 100, DEFAULT_CREDIBILITY, CredScale,
     (299 * CredScale) \div 100, MAX_CREDIBILITY}

LedgerConfidences == {5, 7, 8}

LedgerTables ==
    UNION {[S -> [credibility : LedgerCredibilities, total_votes : {0},
                  aligned_votes : {0}, last_updated : {StoredTime}]] :
              S \in SUBSET ActiveTokens}

LedgerRows(h) ==
    {{}} \cup {{[rumor_id |-> 1, hashed_token |-> h, vote_type |-> v,
                 vote_weight |-> DEFAULT_CREDIBILITY, confidence |-> c]} :
                  v \in VoteTypes, c \in LedgerConfidences}

LedgerInit ==
    /\ now = StartTime
    /\ \E uc \in LedgerTables, r1 \in LedgerRows(1), r2 \in LedgerRows(2) :
          db = [rumors |-> << NewRumor(PlainContent, StoredTime, CredScale, 101) >>,
                votes |-> r1 \cup r2,
                user_credibility |-> uc]

LedgerResolve ==
    \E direction \in VoteTypes :
        /\ \A h \in DOMAIN db.user_credibility : db.user_credibility[h].total_votes < MaxFeedback
        /\ db' = [db EXCEPT !.user_credibility =
                    ApplyFeedback(@, db.votes, direction, now)]
        /\ UNCHANGED now

LedgerNext == LedgerResolve

LedgerSpec == LedgerInit /\ [][LedgerNext]_vars

---------------------------------------------------------------------------
(* Vocabulary of the properties *)

Users(d) == DOMAIN d.user_credibility

\* the credibility getOrCreate resolves for h in database d
ResolvedCredibility(d, h) ==
    IF h \in Users(d) THEN d.user_credibility[h].credibility ELSE CredScale \div 10

TotalVotes(rumor) == rumor.verify_count + rumor.dispute_count

\* the vote rows a step adds; only an accepted vote adds one
NewVotes == db'.votes \ db.votes

---------------------------------------------------------------------------
C2_CredibilityBounds ==
    \A h \in Users(db) :
        /\ 100 * db.user_credibility[h].credibility >= 5 * CredScale
        /\ db.user_credibility[h].credibility <= 3 * CredScale

\* an identity sits on the floor 0.05 after feedback has been applied to it
C2_Witness ==
    \E h \in Users(db) :
        /\ 100 * db.user_credibility[h].credibility = 5 * CredScale
        /\ db.user_credibility[h].total_votes > 0

\* the vote attempts identity h can send for rumor r
AttemptsBy(h, r) == {q \in WellFormedVotes : q.hashedToken = h /\ q.rumorId = r}

\* neither deleted nor archived
Live(rumor) == ~rumor.is_deleted /\ rumor.status = "ACTIVE"

(* C3: once a vote by v on r has been accepted, every later vote attempt   *)
(* by v on r is rejected as a duplicate and changes nothing.  Stated for   *)
(* the attempts on a rumor that still takes votes: the identity has a vote *)
(* row on r before the step, so after the step its attempt is a Conflict.  *)
C3_NoSecondVote ==
    [][\A q \in WellFormedVotes :
          (ExistingVote(db, q.rumorId, q.hashedToken) /\ Live(db'.rumors[q.rumorId]))
              => LET out == VoteHandler(db', q, now')
                 IN out.res.error = "Conflict" /\ out.db = db']_vars

(* C4 as written: a vote attempt by the rumor's submitter is always        *)
(* rejected as Forbidden.                                                  *)
C4_AlwaysForbidden ==
    \A r \in RumorIds(db) :
        \A q \in AttemptsBy(db.rumors[r].submitter_token, r) :
            VoteHandler(db, q, now).res.error = "Forbidden"

(* C4: a vote attempt by the rumor's submitter is always rejected, as      *)
(* Forbidden when the rumor is neither deleted nor archived (also when it  *)
(* has no votes yet) and as NotFound otherwise, and changes nothing; no    *)
(* vote row has as voter the submitter of the rumor it targets.            *)
C4_SelfVote ==
    /\ \A r \in RumorIds(db) :
          \A q \in AttemptsBy(db.rumors[r].submitter_token, r) :
              LET out == VoteHandler(db, q, now)
              IN /\ out.db = db
                 /\ out.res.status # 200
                 /\ out.res.error = IF Live(db.rumors[r]) THEN "Forbidden" ELSE "NotFound"
    /\ \A v \in db.votes :
          /\ v.rumor_id \in RumorIds(db)
          /\ db.rumors[v.rumor_id].submitter_token # v.hashed_token

\* a live rumor without any vote stands beside a deleted one, each with a
\* submitter that sends requests
C4_Witness ==
    /\ \E r \in RumorIds(db) :
          /\ Live(db.rumors[r])
          /\ TotalVotes(db.rumors[r]) = 0
          /\ db.rumors[r].submitter_token \in ActiveTokens
    /\ \E r \in RumorIds(db) :
          /\ db.rumors[r].is_deleted
          /\ db.rumors[r].submitter_token \in ActiveTokens

\* total_votes of h before a step, 0 when the step creates h's record
TotalBefore(h) == IF h \in Users(db) THEN db.user_credibility[h].total_votes ELSE 0
AlignedBefore(h) == IF h \in Users(db) THEN db.user_credibility[h].aligned_votes ELSE 0

(* C5: an accepted vote on r applies no alignment feedback while           *)
(* verify_count+dispute_count of r after the vote is below 5 (the caster's *)
(* record may be created); from 5 on, every identity holding a vote row on *)
(* r gets exactly one feedback application per accepted vote: its          *)
(* total_votes grows by exactly 1.                                         *)
C5_ConsensusThreshold ==
    [][\A nv \in NewVotes :
          LET total == TotalVotes(db'.rumors[nv.rumor_id])
          IN /\ total < 5 =>
                   /\ Users(db') = Users(db) \cup {nv.hashed_token}
                   /\ \A h \in Users(db) :
                         /\ db'.user_credibility[h].credibility =
                                db.user_credibility[h].credibility
                         /\ db'.user_credibility[h].total_votes =
                                db.user_credibility[h].total_votes
                         /\ db'.user_credibility[h].aligned_votes =
                                db.user_credibility[h].aligned_votes
                   /\ db'.user_credibility[nv.hashed_token].total_votes =
                          TotalBefore(nv.hashed_token)
             /\ total >= 5 =>
                   \A v \in db'.votes :
                       v.rumor_id = nv.rumor_id =>
                           /\ v.hashed_token \in Users(db')
                           /\ db'.user_credibility[v.hashed_token].total_votes =
                                  TotalBefore(v.hashed_token) + 1]_vars

\* the tenth vote on a rumor: its caster has been scored once, the first
\* voter once for each vote from the fifth on
C5_Witness ==
    \E r \in RumorIds(db) :
        /\ TotalVotes(db.rumors[r]) = 10
        /\ 2 \in Users(db) /\ db.user_credibility[2].total_votes = 1
        /\ 101 \in Users(db) /\ db.user_credibility[101].total_votes = 6

(* C6: when the Consensus Resolver fires for a rumor, the voters treated   *)
(* as aligned are the verify voters if the rumor's trust_score is strictly *)
(* above 0 and the dispute voters otherwise, a trust_score of exactly 0    *)
(* included.                                                               *)
C6_ConsensusDirection ==
    [][\A nv \in NewVotes :
          LET rumor == db'.rumors[nv.rumor_id]
          IN TotalVotes(rumor) >= 5 =>
                \A v \in db'.votes :
                    v.rumor_id = nv.rumor_id =>
                        LET aligned == IF rumor.trust_score > 0
                                       THEN v.vote_type = "verify"
                                       ELSE v.vote_type = "dispute"
                        IN db'.user_credibility[v.hashed_token].aligned_votes =
                               AlignedBefore(v.hashed_token) + (IF aligned THEN 1 ELSE 0)]_vars

\* the fifth vote left the trust_score at exactly 0: its caster disputed and
\* counts as aligned, the verify voter 102 was scored and does not
C6_Witness ==
    \E r \in RumorIds(db) :
        /\ db.rumors[r].trust_score = 0
        /\ TotalVotes(db.rumors[r]) = 5
        /\ \E v \in db.votes :
              v.rumor_id = r /\ v.hashed_token = 2 /\ v.vote_type = "dispute"
        /\ 2 \in Users(db) /\ db.user_credibility[2].aligned_votes = 1
        /\ 102 \in Users(db)
        /\ db.user_credibility[102].total_votes = 1
        /\ db.user_credibility[102].aligned_votes = 0

\* clamp of a credibility x given in 1/(100*CredScale): the value in 1/CredScale
ClampedHundredths(x) ==
    IF x < 5 * CredScale THEN (5 * CredScale) \div 100
    ELSE IF x > 300 * CredScale THEN 3 * CredScale
    ELSE x \div 100

\* the feedback rule of the claim, for credibility c in 1/CredScale
FeedbackRule(c, aligned, confidence) ==
    IF aligned THEN ClampedHundredths(100 * c + 2 * CredScale)
    ELSE IF confidence > 7 THEN ClampedHundredths(80 * c)
    ELSE ClampedHundredths(100 * c - CredScale)

(* C7: one alignment-feedback application to an existing identity with     *)
(* credibility c sets it to clamp(c + 0.02) if aligned, clamp(c * 0.8) if  *)
(* not aligned and the vote's recorded confidence is above 0.7, and        *)
(* clamp(c - 0.01) otherwise, the clamp being to [0.05, 3.0]; total_votes  *)
(* grows by 1 and aligned_votes by 1 iff aligned; for an identity without  *)
(* record nothing changes and no record is created.                        *)
C7_AlignmentFeedback ==
    \A direction \in {"verify", "dispute"} :
        LET out == ApplyFeedback(db.user_credibility, db.votes, direction, now)
        IN /\ DOMAIN out = Users(db)
           /\ \A h \in Users(db) :
                 LET before == db.user_credibility[h]
                     rows == {v \in db.votes : v.hashed_token = h}
                 IN /\ rows = {} => out[h] = before
                    /\ \A v \in rows :
                          LET aligned == (v.vote_type = direction)
                          IN /\ out[h].credibility =
                                    FeedbackRule(before.credibility, aligned, v.confidence)
                             /\ out[h].total_votes = before.total_votes + 1
                             /\ out[h].aligned_votes =
                                    before.aligned_votes + (IF aligned THEN 1 ELSE 0)

\* feedback has been applied: one identity was pushed against the ceiling 3.0,
\* the other one has a vote row and no record
C7_Witness ==
    /\ \E h \in Users(db) :
          /\ db.user_credibility[h].total_votes > 0
          /\ db.user_credibility[h].credibility = 3 * CredScale
    /\ \E v \in db.votes : v.hashed_token \notin Users(db)

(* C8: a listing read archives every ACTIVE rumor whose age exceeds the    *)
(* 7-month window or whose trust_score is strictly below -0.8, and leaves  *)
(* ACTIVE every rumor that meets neither condition.                        *)
C8_ArchiveRule ==
    \A r \in RumorIds(db) :
        db.rumors[r].status = "ACTIVE" =>
            LET after == Sweep(db, now).rumors[r]
                stale == now - db.rumors[r].timestamp > 7 * 3044
                distrusted == 10 * db.rumors[r].trust_score < 0 - 8 * TrustScale
            IN IF stale \/ distrusted
               THEN after.status = "ARCHIVED" /\ after.is_archived
               ELSE after.status = "ACTIVE" /\ ~after.is_archived

(* C9: archival is one-way and freezes the rumor: an ARCHIVED rumor is     *)
(* ARCHIVED in every later state, its counts and trust_score never change  *)
(* again, and every vote attempt on it is rejected as NotFound.            *)
C9_ArchivalFreezes ==
    /\ [](\A r \in RumorIds(db) :
             db.rumors[r].status = "ARCHIVED" =>
                 \A q \in WellFormedVotes :
                     q.rumorId = r =>
                         LET out == VoteHandler(db, q, now)
                         IN out.res.error = "NotFound" /\ out.db = db)
    /\ [][\A r \in RumorIds(db) :
             db.rumors[r].status = "ARCHIVED" =>
                 /\ db'.rumors[r].status = "ARCHIVED"
                 /\ db'.rumors[r].verify_count = db.rumors[r].verify_count
                 /\ db'.rumors[r].dispute_count = db.rumors[r].dispute_count
                 /\ db'.rumors[r].trust_score = db.rumors[r].trust_score]_vars

\* an archived rumor that is not deleted and has votes, while an identity that
\* has not voted on it and did not submit it is still sending requests
C9_Witness ==
    \E r \in RumorIds(db) :
        /\ db.rumors[r].status = "ARCHIVED"
        /\ ~db.rumors[r].is_deleted
        /\ TotalVotes(db.rumors[r]) > 0
        /\ \E h \in ActiveTokens :
              /\ h # db.rumors[r].submitter_token
              /\ ~ExistingVote(db, r, h)

(* C10: a delete by an identity other than the submitter is Forbidden and  *)
(* changes nothing; a delete by the submitter of a rumor not yet deleted   *)
(* sets deleted and moves the submitter's credibility from c to            *)
(* max(0.05, c - 0.1) if it has a record, creating none otherwise; a       *)
(* delete of an already deleted rumor is rejected and changes nothing.     *)
C10_Delete ==
    \A r \in RumorIds(db) :
        \A h \in ActiveTokens :
            LET rumor == db.rumors[r]
                out == DeleteHandler(db, DeleteRequest(r, h), now)
            IN /\ h # rumor.submitter_token =>
                      out.res.error = "Forbidden" /\ out.db = db
               /\ (h = rumor.submitter_token /\ rumor.is_deleted) =>
                      out.res.status = 400 /\ out.db = db
               /\ (h = rumor.submitter_token /\ ~rumor.is_deleted) =>
                      /\ out.res.status = 200
                      /\ out.db.rumors[r] = [rumor EXCEPT !.is_deleted = TRUE]
                      /\ \A o \in RumorIds(db) \ {r} : out.db.rumors[o] = db.rumors[o]
                      /\ out.db.votes = db.votes
                      /\ Users(out.db) = Users(db)
                      /\ \A u \in Users(db) \ {h} :
                            out.db.user_credibility[u] = db.user_credibility[u]
                      /\ h \in Users(db) =>
                            LET c == db.user_credibility[h].credibility
                            IN 100 * out.db.user_credibility[h].credibility =
                                   Max(5 * CredScale, 100 * c - 10 * CredScale)

\* a rumor was deleted by its submitter, whose credibility 0.1 fell to the
\* floor 0.05, and the submitter still has a rumor it could delete
C10_Witness ==
    \E r, o \in RumorIds(db) :
        /\ db.rumors[r].is_deleted
        /\ ~db.rumors[o].is_deleted
        /\ db.rumors[o].submitter_token = db.rumors[r].submitter_token
        /\ db.rumors[r].submitter_token \in Users(db)
        /\ 100 * db.user_credibility[db.rumors[r].submitter_token].credibility
               = 5 * CredScale

\* the valid submissions: any content, identity and confidence of the input sets
ValidSubmits ==
    {SubmitRequest(c, h, k) : c \in Contents, h \in ActiveTokens, k \in Confidences}

(* C11: a valid submission creates one new rumor, ACTIVE, not deleted, not *)
(* archived, with both counts 0 and trust_score = submitter credibility    *)
(* (0.1 for an identity without record) times the submission confidence;   *)
(* it changes no existing rumor, vote or credibility value; the new        *)
(* identifier was never used, since no step removes or renumbers a rumor.  *)
C11_Submission ==
    /\ [](\A q \in ValidSubmits :
             LET out == SubmitHandler(db, q, now)
                 id == Len(db.rumors) + 1
                 c == ResolvedCredibility(db, q.hashedToken)
             IN /\ out.res.status = 200
                /\ out.res.body.id = id
                /\ RumorIds(out.db) = RumorIds(db) \cup {id}
                /\ out.db.rumors[id].status = "ACTIVE"
                /\ ~out.db.rumors[id].is_deleted
                /\ ~out.db.rumors[id].is_archived
                /\ out.db.rumors[id].verify_count = 0
                /\ out.db.rumors[id].dispute_count = 0
                /\ out.db.rumors[id].trust_score = c * q.confidenceWeight
                /\ out.db.rumors[id].submitter_token = q.hashedToken
                /\ \A r \in RumorIds(db) : out.db.rumors[r] = db.rumors[r]
                /\ out.db.votes = db.votes
                /\ Users(out.db) = Users(db) \cup {q.hashedToken}
                /\ \A h \in Users(db) :
                      out.db.user_credibility[h] = db.user_credibility[h])
    /\ [][/\ Len(db'.rumors) >= Len(db.rumors)
          /\ \A r \in RumorIds(db) :
                /\ db'.rumors[r].content = db.rumors[r].content
                /\ db'.rumors[r].submitter_token = db.rumors[r].submitter_token]_vars

\* a second rumor was submitted with full confidence by an identity whose
\* credibility had fallen to 0.05, next to its deleted first rumor
C11_Witness ==
    /\ Len(db.rumors) = 2
    /\ db.rumors[1].is_deleted
    /\ db.rumors[2].submitter_token = db.rumors[1].submitter_token
    /\ db.rumors[2].status = "ACTIVE"
    /\ TotalVotes(db.rumors[2]) = 0
    /\ 100 * db.rumors[2].trust_score = 5 * CredScale * 10

\* the impact a recorded vote row had on its rumor's trust_score
RowImpact(v) == v.vote_weight * v.confidence * VoteDirection(v.vote_type)

RECURSIVE SumImpacts(_)
SumImpacts(rows) ==
    IF rows = {} THEN 0
    ELSE LET v == CHOOSE x \in rows : TRUE
         IN RowImpact(v) + SumImpacts(rows \ {v})

RowsOn(d, r) == {v \in d.votes : v.rumor_id = r}

(* C12: for every rumor, trust_score equals the submission's initial       *)
(* contribution (kept in weighted_verify, which no statement updates) plus *)
(* the sum of vote_weight * confidence * direction over the vote rows      *)
(* currently recorded for the rumor.                                       *)
C12_TrustIsRunningSum ==
    \A r \in RumorIds(db) :
        db.rumors[r].trust_score =
            db.rumors[r].weighted_verify + SumImpacts(RowsOn(db, r))

(* C13: the votes table holds at most one row per (rumor, voter identity)  *)
(* pair.                                                                   *)
C13_OneRowPerPair ==
    \A v, w \in db.votes :
        (v.rumor_id = w.rumor_id /\ v.hashed_token = w.hashed_token) => v = w

\* an identity voted twice on the same rumor, its first row having been pruned
\* in between: the rumor counts two votes and holds the one row of the only
\* identity that can vote on it
C13_Witness ==
    /\ Len(db.rumors) = 2
    /\ db.rumors[2].submitter_token = 1
    /\ TotalVotes(db.rumors[2]) = 2
    /\ Cardinality(RowsOn(db, 2)) = 1
    /\ \E v \in RowsOn(db, 2) : v.hashed_token = 2

\* the impact request q has when it is accepted in database d
ImpactIn(d, q) ==
    ResolvedCredibility(d, q.hashedToken) * q.confidenceWeight
        * (IF q.voteType = "verify" THEN 1 ELSE 0 - 1)

(* C14: a handler runs to completion before the next request is taken up,  *)
(* so concurrently arriving votes are processed in some order.  For any    *)
(* two votes on the same rumor by distinct voters that would each be       *)
(* accepted, both orders accept both, add both impacts to the trust_score  *)
(* and 2 to the vote total, and leave the same rumor and the same vote     *)
(* rows; and between two requests a rumor's vote total never moves without *)
(* its trust_score moving by the impact of the vote row added.             *)
C14_NoLostUpdate ==
    /\ [](\A q1, q2 \in WellFormedVotes :
             (/\ q1.rumorId = q2.rumorId
              /\ q1.hashedToken # q2.hashedToken
              /\ VoteHandler(db, q1, now).res.status = 200
              /\ VoteHandler(db, q2, now).res.status = 200)
             => LET r == q1.rumorId
                    first == VoteHandler(VoteHandler(db, q1, now).db, q2, now)
                    second == VoteHandler(VoteHandler(db, q2, now).db, q1, now)
                IN /\ first.res.status = 200
                   /\ second.res.status = 200
                   /\ first.db.rumors[r].trust_score =
                          db.rumors[r].trust_score + ImpactIn(db, q1) + ImpactIn(db, q2)
                   /\ TotalVotes(first.db.rumors[r]) = TotalVotes(db.rumors[r]) + 2
                   /\ second.db.rumors[r] = first.db.rumors[r]
                   /\ RowsOn(second.db, r) = RowsOn(first.db, r))
    /\ [][\A r \in RumorIds(db) :
             (\/ TotalVotes(db'.rumors[r]) # TotalVotes(db.rumors[r])
              \/ db'.rumors[r].trust_score # db.rumors[r].trust_score)
             => \E nv \in NewVotes :
                   /\ nv.rumor_id = r
                   /\ TotalVotes(db'.rumors[r]) = TotalVotes(db.rumors[r]) + 1
                   /\ db'.rumors[r].trust_score =
                          db.rumors[r].trust_score + RowImpact(nv)]_vars

\* both requesting identities have voted on the rumor of a third one, the
\* second of the two votes reaching the consensus threshold, and the score
\* holds the impact of every row
C14_Witness ==
    \E r \in RumorIds(db) :
        /\ db.rumors[r].submitter_token \notin ActiveTokens
        /\ \E v \in RowsOn(db, r) : v.hashed_token = 1
        /\ \E v \in RowsOn(db, r) : v.hashed_token = 2
        /\ TotalVotes(db.rumors[r]) = 5
        /\ Cardinality(RowsOn(db, r)) = 5
        /\ db.rumors[r].trust_score =
               db.rumors[r].weighted_verify + SumImpacts(RowsOn(db, r))

(* C15: when saveDatabase fails during a mutating operation, the operation *)
(* does not report success and leaves the in-memory database as it was     *)
(* before the request: nothing it inserted or updated is visible to a      *)
(* later request.                                                          *)
C15_FailedSaveInvisible ==
    \A failAt \in SaveCalls :
        /\ \A q \in WellFormedSubmits :
              LET out == SubmitHandlerOnFailure(db, q, now, failAt)
              IN out.res.status = 500 => out.db = db
        /\ \A q \in WellFormedVotes :
              LET out == VoteHandlerOnFailure(db, q, now, failAt)
              IN out.res.status = 500 => out.db = db
        /\ \A q \in DeleteRequests :
              LET out == DeleteHandlerOnFailure(db, q, now, failAt)
              IN out.res.status = 500 => out.db = db
        /\ \A h \in ActiveTokens :
              LET out == CredibilityHandlerOnFailure(db, h, now, failAt)
              IN out.res.status = 500 => out.db = db
        /\ \A out \in ListOnFailure(db, now, failAt) :
              out.res.status = 500 => out.db = db

\* every rumor of d is in e with the same trust_score and counts
SameScores(d, e) ==
    \A r \in RumorIds(d) :
        /\ r \in RumorIds(e)
        /\ e.rumors[r].trust_score = d.rumors[r].trust_score
        /\ e.rumors[r].verify_count = d.rumors[r].verify_count
        /\ e.rumors[r].dispute_count = d.rumors[r].dispute_count

\* every identity with a record in d and in e, those of skip apart, has the
\* same credibility value in both
SameCredibilities(d, e, skip) ==
    \A h \in (Users(d) \cap Users(e)) \ skip :
        e.user_credibility[h].credibility = d.user_credibility[h].credibility

\* what listing reads, submissions and lookups leave alone
QuietReads ==
    /\ SameScores(db, Sweep(db, now))
    /\ SameCredibilities(db, Sweep(db, now), {})
    /\ \A q \in ValidSubmits \cup MalformedSubmits :
          /\ SameScores(db, SubmitHandler(db, q, now).db)
          /\ SameCredibilities(db, SubmitHandler(db, q, now).db, {})
    /\ \A h \in ActiveTokens \cup {BadToken} :
          /\ SameScores(db, CredibilityHandler(db, h, now).db)
          /\ SameCredibilities(db, CredibilityHandler(db, h, now).db, {})

(* C16 as written: listing reads, submissions, deletions and credibility   *)
(* lookups leave trust_score, the counts and the credibility value of      *)
(* every existing row unchanged.                                           *)
C16_OnlyFeedbackWritesCredibility ==
    /\ QuietReads
    /\ \A q \in DeleteRequests :
          /\ SameScores(db, DeleteHandler(db, q, now).db)
          /\ SameCredibilities(db, DeleteHandler(db, q, now).db, {})

(* C16: only vote processing changes an existing rumor's trust_score or    *)
(* counts, and an existing identity's credibility value is changed only by *)
(* consensus feedback and by the delete penalty on the deleting submitter: *)
(* listing reads, submissions and lookups leave those fields of every      *)
(* existing row unchanged; a deletion leaves the rumor fields and every    *)
(* other identity's credibility unchanged, and a rejected one changes      *)
(* none; a vote changes the fields of its rumor only, and credibility      *)
(* values only of identities holding a vote row on that rumor once its     *)
(* vote total is at least 5.                                               *)
C16_Writers ==
    /\ QuietReads
    /\ \A q \in DeleteRequests :
          LET out == DeleteHandler(db, q, now)
          IN /\ SameScores(db, out.db)
             /\ SameCredibilities(db, out.db, {q.hashedToken})
             /\ out.res.status # 200 => SameCredibilities(db, out.db, {})
    /\ \A q \in VoteRequests :
          LET out == VoteHandler(db, q, now)
              touched == {h \in Users(db) :
                            out.db.user_credibility[h].credibility #
                                db.user_credibility[h].credibility}
          IN /\ Users(db) \subseteq Users(out.db)
             /\ \A r \in RumorIds(db) \ {q.rumorId} :
                   /\ out.db.rumors[r].trust_score = db.rumors[r].trust_score
                   /\ out.db.rumors[r].verify_count = db.rumors[r].verify_count
                   /\ out.db.rumors[r].dispute_count = db.rumors[r].dispute_count
             /\ touched # {} =>
                   /\ out.res.status = 200
                   /\ TotalVotes(out.db.rumors[q.rumorId]) >= 5
                   /\ \A h \in touched : ExistingVote(out.db, q.rumorId, h)

\* a submitter that never received feedback sits at 0.05 after deleting its
\* rumor, and a listing read has archived the other rumor, whose score stands
C16_Witness ==
    /\ Len(db.rumors) = 2
    /\ db.rumors[1].is_deleted
    /\ db.rumors[1].submitter_token \in Users(db)
    /\ 100 * db.user_credibility[db.rumors[1].submitter_token].credibility
           = 5 * CredScale
    /\ db.user_credibility[db.rumors[1].submitter_token].total_votes = 0
    /\ db.rumors[2].status = "ARCHIVED"
    /\ db.rumors[2].trust_score > 0

(* C17: a deleted rumor appears in no listing and every vote attempt on it *)
(* is rejected as NotFound, in every later state; the delete removes       *)
(* neither the rumor row nor a vote row, and no step removes a rumor row   *)
(* or clears the deleted flag.                                             *)
C17_DeletedStaysHidden ==
    /\ [](\A r \in RumorIds(db) :
             db.rumors[r].is_deleted =>
                 /\ \A rows \in Listings(Sweep(db, now)) :
                       \A i \in DOMAIN rows : rows[i].id # r
                 /\ \A q \in WellFormedVotes :
                       q.rumorId = r =>
                           /\ VoteHandler(db, q, now).res.error = "NotFound"
                           /\ VoteHandler(db, q, now).db = db)
    /\ [][/\ Len(db'.rumors) >= Len(db.rumors)
          /\ \A r \in RumorIds(db) :
                /\ db.rumors[r].is_deleted => db'.rumors[r].is_deleted
                /\ (~db.rumors[r].is_deleted /\ db'.rumors[r].is_deleted) =>
                      /\ db'.votes = db.votes
                      /\ Len(db'.rumors) = Len(db.rumors)]_vars

\* a deleted rumor still holds its row and the votes cast on it, next to a
\* rumor that is listed and to an identity that could otherwise vote on it
C17_Witness ==
    \E r, o \in RumorIds(db) :
        /\ db.rumors[r].is_deleted
        /\ db.rumors[r].status = "ACTIVE"
        /\ RowsOn(db, r) # {}
        /\ ~db.rumors[o].is_deleted
        /\ \E h \in ActiveTokens :
              h # db.rumors[r].submitter_token /\ ~ExistingVote(db, r, h)

C19_Pruning ==
    LET d == Sweep(db, now)
    IN /\ Users(d) = {h \in Users(db) :
                         ~(db.user_credibility[h].last_updated < now - 365 * 100)}
       /\ \A h \in Users(d) : d.user_credibility[h] = db.user_credibility[h]
       /\ d.votes = {v \in db.votes : v.hashed_token \in Users(d)}
       /\ RumorIds(d) = RumorIds(db)
       /\ \A r \in RumorIds(db) :
             /\ d.rumors[r].content = db.rumors[r].content
             /\ d.rumors[r].submitter_token = db.rumors[r].submitter_token
             /\ d.rumors[r].verify_count = db.rumors[r].verify_count
             /\ d.rumors[r].dispute_count = db.rumors[r].dispute_count
             /\ d.rumors[r].trust_score = db.rumors[r].trust_score
       /\ \A v \in db.votes : v.hashed_token \in Users(db)

\* a read has pruned the voters of a year ago and their votes; the record
\* last updated exactly 365 days ago and its vote are still there
C19_Witness ==
    /\ now = USER_CLEANUP_THRESHOLD + 1
    /\ \E v \in db.votes :
          /\ v.hashed_token \in Users(db)
          /\ db.user_credibility[v.hashed_token].last_updated = 1
          /\ TotalVotes(db.rumors[v.rumor_id]) > Cardinality(RowsOn(db, v.rumor_id))

(* C20: the values an accepted vote returns are the stored values when the *)
(* call returns: the rumor's verify_count, dispute_count and trust_score   *)
(* after the vote, and the caster's stored credibility, also when the vote *)
(* triggers the Consensus Resolver.                                        *)
C20_ReturnedEqualsStored ==
    \A q \in WellFormedVotes :
        LET out == VoteHandler(db, q, now)
        IN out.res.status = 200 =>
              /\ out.res.body.verify_count = out.db.rumors[q.rumorId].verify_count
              /\ out.res.body.dispute_count = out.db.rumors[q.rumorId].dispute_count
              /\ out.res.body.trust_score = out.db.rumors[q.rumorId].trust_score
              /\ out.res.body.your_credibility =
                     out.db.user_credibility[q.hashedToken].credibility

(* C21: for every rumor, verify_count is the number of verify vote rows    *)
(* recorded for it and dispute_count the number of dispute vote rows, so   *)
(* the total compared with the consensus threshold is the number of voters *)
(* the Consensus Resolver re-scores.                                       *)
C21_CountsMatchRows ==
    \A r \in RumorIds(db) :
        /\ db.rumors[r].verify_count =
               Cardinality({v \in RowsOn(db, r) : v.vote_type = "verify"})
        /\ db.rumors[r].dispute_count =
               Cardinality({v \in RowsOn(db, r) : v.vote_type = "dispute"})

\* vote attempts with every combination of good and bad fields
AnyVotes ==
    {VoteRequest(r, h, v, c) :
        r \in {NoRumorId} \cup (1 .. MaxRumors),
        h \in ActiveTokens \cup {BadToken, NoToken},
        v \in VoteTypes \cup {"abstain"},
        c \in {0, 5, 11}}

\* the rejection the claim's order gives attempt q, "none" when it is accepted
RejectionOf(q) ==
    IF \/ q.rumorId = NoRumorId
       \/ q.hashedToken \notin ActiveTokens
       \/ q.voteType \notin {"verify", "dispute"}
       \/ q.confidenceWeight < 1
       \/ q.confidenceWeight > 10
    THEN "Validation"
    ELSE IF q.rumorId \notin RumorIds(db) \/ ~Live(db.rumors[q.rumorId])
    THEN "NotFound"
    ELSE IF db.rumors[q.rumorId].submitter_token = q.hashedToken
    THEN "Forbidden"
    ELSE IF \E v \in RowsOn(db, q.rumorId) : v.hashed_token = q.hashedToken
    THEN "Conflict"
    ELSE "none"

(* C22: a rejected vote attempt leaves the whole store unchanged, and the  *)
(* rejection is decided in the order validation, NotFound (rumor missing,  *)
(* deleted or archived), Forbidden (self-vote), Conflict (duplicate); an   *)
(* attempt none of these applies to is accepted.                           *)
C22_RejectedVote ==
    \A q \in AnyVotes \cup VoteRequests :
        LET out == VoteHandler(db, q, now)
        IN /\ out.res.error = RejectionOf(q)
           /\ (out.res.status = 200) = (RejectionOf(q) = "none")
           /\ out.res.status # 200 => out.db = db

\* attempts of every kind are at hand: a live rumor with a requesting
\* submitter and a recorded requesting voter, and a rumor that takes no votes
\* any more on which its submitter and a recorded voter could try
C22_Witness ==
    /\ \E r \in RumorIds(db) :
          /\ Live(db.rumors[r])
          /\ db.rumors[r].submitter_token \in ActiveTokens
          /\ \E v \in RowsOn(db, r) : v.hashed_token \in ActiveTokens
          /\ Users(db) \cap ActiveTokens # ActiveTokens
    /\ \E r \in RumorIds(db) :
          /\ ~Live(db.rumors[r])
          /\ db.rumors[r].submitter_token \in ActiveTokens
          /\ \E v \in RowsOn(db, r) : v.hashed_token \in ActiveTokens

====
